---------------------------- MODULE Spec2Model ----------------------------
(***************************************************************************)
(* asyncLio-bot: the account-level GameManager (game_manager.py) and the   *)
(* per-game lifecycle of Game (game.py).                                   *)
(*                                                                         *)
(* The specifications of this module:                                      *)
(*   Spec        the GameManager consuming the account event stream; every *)
(*               tracked Game is seen through its loop_task only.          *)
(*   SpecGame    one Game: its stream loop and the move tasks it spawns.   *)
(*   SpecUpdate  the body of that loop run on one event, for every event,  *)
(*               board, colour and status the loop can be waiting in.      *)
(*   SpecAdmission  Spec with the history of the accepted challenge ids.   *)
(*   SpecLive    Spec with the fairness of the handlers, of the awaited    *)
(*               loop task and of the keepalive ping, for the long run.    *)
(*   SpecDecline, SpecPerf, SpecResign, SpecBook, SpecMatch, SpecRetry,    *)
(*   SpecLimit   one function each, applied to every input of a bounded    *)
(*               set: check_decline_reason, PerfType.from_standard_tc,     *)
(*               the resign and draw decision after a search,              *)
(*               get_book_move, Matchmaker.challenge, the retrying         *)
(*               Lichess.get / Lichess.post and the search limit of        *)
(*               get_engine_move.                                          *)
(*   SpecStream  the generators Lichess.watch_event_stream and             *)
(*               Lichess.watch_game_stream, step by step.                  *)
(*                                                                         *)
(* asyncio is single-threaded and cooperative: a handler runs without      *)
(* interleaving until it awaits.  The Lichess calls (accept, decline,      *)
(* abort, make_move, ...) are modelled by what lichess.py returns from     *)
(* them, True or False; neither value is read by the callers.  An         *)
(* exception of the HTTP transport is followed where a move task posts.    *)
(***************************************************************************)
EXTENDS Naturals, Integers, Sequences, FiniteSets, TLC

(***************************************************************************)
(* Bounds of the model.                                                    *)
(***************************************************************************)
NumGames == 3        \* game ids the server may announce
NumChallenges == 2   \* challenge ids the server may announce
MaxArrivals == 2     \* challenges ever placed in the queue along one run
MaxPly == 2          \* length of the move lists the game stream delivers
MaxMoveTasks == 2    \* move tasks one Game creates along one run
MaxSeconds == 1800   \* initial time of a time control, in seconds
MaxIncrement == 3     \* increment of a time control, in seconds
MaxWindow == 3       \* CONFIG["resign"]["moves"], the evaluations looked at
NumPositions == 2    \* positions a game passes through
MaxHistory == 4      \* positions on the stack of the board
NumBooks == 2        \* book sources configured for the variant
MaxBots == 3         \* bots the server lists online
MaxTries == 3        \* requests one call of Lichess.get or Lichess.post sends
MaxAborts == 4       \* abort requests one Game sends along one run
MaxStreamSteps == 4  \* steps of one stream generator that are followed

\* the values time.monotonic() is read at, in seconds: the idle timeout of one
\* minute has or has not elapsed between two of them
ClockReadings == {0, 59, 60}

GameIds == 1..NumGames
ChallengeIds == 1..NumChallenges

(***************************************************************************)
(* CONFIG: the configuration the run was started with.                     *)
(***************************************************************************)
username == "me"

CONFIG ==
  [ concurrency |-> 2,
    books |-> [enabled |-> TRUE, depth |-> 10],
    resign |-> [enabled |-> TRUE, moves |-> 2, score |-> -700],
    draw |-> [enabled |-> TRUE, min_game_length |-> 2, moves |-> 2, score |-> 20],
    matchmaking |-> [enabled |-> TRUE, timeout |-> 1, max_rating_diff |-> 200,
                     min_games |-> 10],
    challenge |->
      [ enabled |-> TRUE,
        modes |-> {"rated", "casual"},
        opponents |-> {"bot", "human"},
        variants |-> <<"standard">>,
        time_controls |-> {"bullet", "blitz", "rapid"},
        min_increment |-> 0,
        max_increment |-> 180,
        min_initial |-> 60,
        max_initial |-> 1800,
        max_rating_diffs |-> [bot |-> 400, human |-> 400] ] ]

Range(s) == {s[i] : i \in DOMAIN s}

Abs(x) == IF x < 0 THEN -x ELSE x

Max(a, b) == IF a >= b THEN a ELSE b

(***************************************************************************)
(* GameManager.check_decline_reason.  An optional value (None in the       *)
(* source) is a sequence of length 0 or 1.  NoReason is the None result.   *)
(***************************************************************************)
NoReason == "none"

\* mutant: the time-control category checked before the variant
check_decline_reason_tc_first(cfg, challenge_info) ==
  LET cc == cfg.challenge
      is_rated == challenge_info.rated
      variant == challenge_info.variant
      challenger == challenge_info.challenger
      is_bot == IF challenger # <<>> THEN challenger[1].title = "BOT" ELSE FALSE
      their_rating == IF challenger # <<>> THEN challenger[1].rating ELSE <<>>
      my_rating == IF challenge_info.destUser # <<>>
                   THEN challenge_info.destUser[1].rating ELSE <<>>
      increment == challenge_info.increment
      initial == challenge_info.limit
      speed == challenge_info.speed
      max_rating_diff == IF is_bot THEN cc.max_rating_diffs.bot
                         ELSE cc.max_rating_diffs.human
  IN IF ~cc.enabled THEN "generic"
     ELSE IF is_rated /\ "rated" \notin cc.modes THEN "casual"
     ELSE IF ~is_rated /\ "casual" \notin cc.modes THEN "rated"
     ELSE IF speed \notin cc.time_controls THEN "timeControl"
     ELSE IF variant \notin Range(cc.variants)
          THEN (IF cc.variants = <<"standard">> THEN "standard" ELSE "variant")
     ELSE IF is_bot /\ "bot" \notin cc.opponents THEN "noBot"
     ELSE IF ~is_bot /\ "human" \notin cc.opponents THEN "onlyBot"
     ELSE IF initial < cc.min_initial \/ increment < cc.min_increment THEN "tooFast"
     ELSE IF initial > cc.max_initial \/ increment > cc.max_increment THEN "tooSlow"
     ELSE IF /\ is_rated /\ my_rating # <<>> /\ their_rating # <<>>
             /\ Abs(my_rating[1] - their_rating[1]) > max_rating_diff
          THEN "generic"
     ELSE NoReason

check_decline_reason(cfg, challenge_info) ==
  LET cc == cfg.challenge
      is_rated == challenge_info.rated
      variant == challenge_info.variant
      challenger == challenge_info.challenger
      is_bot == IF challenger # <<>> THEN challenger[1].title = "BOT" ELSE FALSE
      their_rating == IF challenger # <<>> THEN challenger[1].rating ELSE <<>>
      my_rating == IF challenge_info.destUser # <<>>
                   THEN challenge_info.destUser[1].rating ELSE <<>>
      increment == challenge_info.increment
      initial == challenge_info.limit
      speed == challenge_info.speed
      max_rating_diff == IF is_bot THEN cc.max_rating_diffs.bot
                         ELSE cc.max_rating_diffs.human
  IN IF ~cc.enabled THEN "generic"
     ELSE IF is_rated /\ "rated" \notin cc.modes THEN "casual"
     ELSE IF ~is_rated /\ "casual" \notin cc.modes THEN "rated"
     ELSE IF variant \notin Range(cc.variants)
          THEN (IF cc.variants = <<"standard">> THEN "standard" ELSE "variant")
     ELSE IF is_bot /\ "bot" \notin cc.opponents THEN "noBot"
     ELSE IF ~is_bot /\ "human" \notin cc.opponents THEN "onlyBot"
     ELSE IF speed \notin cc.time_controls THEN "timeControl"
     ELSE IF initial < cc.min_initial \/ increment < cc.min_increment THEN "tooFast"
     ELSE IF initial > cc.max_initial \/ increment > cc.max_increment THEN "tooSlow"
     ELSE IF /\ is_rated /\ my_rating # <<>> /\ their_rating # <<>>
             /\ Abs(my_rating[1] - their_rating[1]) > max_rating_diff
          THEN "generic"
     ELSE NoReason

(***************************************************************************)
(* The account events the server may deliver.                              *)
(***************************************************************************)
Player(name, title, rating) == <<[name |-> name, title |-> title, rating |-> rating]>>

ChallengeInfo(challenger, variant, speed, limit, increment) ==
  [ challenger |-> challenger, destUser |-> Player(username, "BOT", <<1800>>),
    rated |-> TRUE, variant |-> variant, speed |-> speed,
    limit |-> limit, increment |-> increment ]

\* an acceptable challenge, one from an anonymous challenger, one this account
\* sent itself, and one the policy declines (variant and time control)
ChallengeInfos ==
  { ChallengeInfo(Player("peer", "BOT", <<1850>>), "standard", "blitz", 180, 2),
    ChallengeInfo(<<>>, "standard", "rapid", 600, 0),
    ChallengeInfo(Player(username, "BOT", <<1800>>), "standard", "blitz", 180, 2),
    ChallengeInfo(Player("peer", "BOT", <<1850>>), "atomic", "classical", 3600, 0) }

NoChallengeInfo == ChallengeInfo(<<>>, "", "", 0, 0)

EventTypes ==
  {"ping", "challenge", "challengeCanceled", "challengeDeclined", "gameStart",
   "gameFinish"}

MkEvent(type, id, challenge) == [type |-> type, id |-> id, challenge |-> challenge]

Events ==
  {MkEvent("ping", 0, NoChallengeInfo)}
  \cup {MkEvent(t, g, NoChallengeInfo) : t \in {"gameStart", "gameFinish"}, g \in GameIds}
  \cup {MkEvent(t, c, NoChallengeInfo) :
          t \in {"challengeCanceled", "challengeDeclined"}, c \in ChallengeIds}
  \cup {MkEvent("challenge", c, i) : c \in ChallengeIds, i \in ChallengeInfos}

NoEvent == MkEvent("none", 0, NoChallengeInfo)

(***************************************************************************)
(* Matchmaker: the bots listed online when Matchmaker.challenge runs.      *)
(***************************************************************************)
Bot(name, rating, total_games) ==
  [name |-> name, rating |-> rating, total_games |-> total_games]

\* nothing listed (also the HTTP error of get_online_bots); this account not
\* listed; listed with no suitable opponent; listed with a suitable opponent
BotLists ==
  { <<>>,
    <<Bot("peer", 1850, 500)>>,
    <<Bot(username, 1800, 900), Bot("novice", 1800, 2), Bot("strong", 2600, 900)>>,
    <<Bot("novice", 1800, 2), Bot(username, 1800, 900), Bot("peer", 1850, 500)>> }

should_challenge(me, other) ==
  IF other.name = me.name THEN FALSE
  ELSE IF Abs(me.rating - other.rating) > CONFIG.matchmaking.max_rating_diff THEN FALSE
  ELSE IF other.total_games < CONFIG.matchmaking.min_games THEN FALSE
  ELSE TRUE

(***************************************************************************)
(* State.                                                                  *)
(***************************************************************************)
VARIABLES
  current_games,    \* GameManager.current_games: the ids it maps to a Game
  loop_task,        \* per game id, the state of that Game's loop_task
  challenge_queue,  \* GameManager.challenge_queue
  last_event_time,  \* GameManager.last_event_time
  mgr_pc,           \* where GameManager.watch_event_stream stands
  event,            \* the event watch_event_stream is handling, NoEvent between two
  awaited,          \* the game whose loop_task on_game_finish awaits
  requests,         \* the requests the handler of `event' has issued
  arrivals,         \* history: ids in the order on_challenge queued them,
                    \*          less the entries a cancellation removed
  serviced,         \* history: ids accepted from the queue, in order
  canceled,         \* history: ids a cancellation took out of the queue and
                    \*          no challenge event has carried since
  reaped,           \* history: the games the ping handled last dropped from the
                    \*          table, empty once the next event arrives
  pending,          \* history, kept under SpecAdmission: <<the ids accepted whose
                    \*          gameStart has not been handled since>>; <<>> where
                    \*          it is not kept
  idle_since,       \* history: the clock reading at the last gameStart, gameFinish,
                    \*          challenge, challengeCanceled or call of the
                    \*          Matchmaker, or at the start
  status,           \* Game.status
  board,            \* Game.board: its move_stack
  color,            \* Game.color
  clock,            \* Game.clock
  scores,           \* Game.scores
  engine,           \* Game.engine: the engine process
  quit_calls,       \* history: calls of engine.quit()
  loop_pc,          \* where Game.watch_game_stream stands
  gevent,           \* under SpecUpdate, the event the loop body is run on
  move_tasks,       \* move_tasks of watch_game_stream: where each make_move stands
  actor,            \* history: what took the last step of the Game: the loop
                    \*          ("end" when it saw the stream end) or a move task
  game_out,         \* the requests the last step of the Game has issued
  abort_requests,   \* history: the abort requests the loop has sent on pings in a
                    \*          row, with no other step of the Game in between
  decided_ply,      \* history: the ply count of the board the latest move task
                    \*          was created for, NoPly before the first; update()
                    \*          replaces the board by a longer one only
  call,             \* under the specifications of one function, its arguments
  ret               \* and what it has returned: <<>> before the call, <<value>> after

mgrVars ==
  <<current_games, loop_task, challenge_queue, last_event_time, mgr_pc,
    event, awaited, requests, arrivals, serviced, canceled, reaped,
    idle_since, pending>>

gameVars ==
  <<status, board, color, clock, scores, engine, quit_calls, loop_pc, gevent,
    move_tasks, actor, game_out, abort_requests, decided_ply>>

fnVars == <<call, ret>>

vars == <<mgrVars, gameVars, fnVars>>

Req(kind, id) == [req |-> kind, id |-> id]

NoGame == 0

TableInit ==
  /\ current_games = {}
  /\ loop_task = [g \in GameIds |-> "none"]
  /\ challenge_queue = <<>>
  /\ last_event_time = 0
  /\ mgr_pc = "stream"
  /\ event = NoEvent
  /\ awaited = NoGame
  /\ requests = <<>>
  /\ arrivals = <<>>
  /\ serviced = <<>>
  /\ canceled = {}
  /\ reaped = {}
  /\ idle_since = 0

MgrInit == TableInit /\ pending = <<>>

(***************************************************************************)
(* Helpers of the GameManager.                                             *)
(***************************************************************************)
\* time.monotonic(): never before a reading taken earlier
monotonic(t) == t \in ClockReadings /\ t >= last_event_time

\* mutant: the limit compared with <= where the source has <
is_under_concurrency_limit_le(games) == Cardinality(games) <= CONFIG.concurrency

is_under_concurrency_limit(games) == Cardinality(games) < CONFIG.concurrency

\* mutant: the Matchmaker called with games in the table
should_create_challenge_busy(games, t, last) ==
  IF ~CONFIG.matchmaking.enabled THEN FALSE
  ELSE t - last >= Max(1, CONFIG.matchmaking.timeout) * 60

should_create_challenge(games, t, last) ==
  IF ~CONFIG.matchmaking.enabled THEN FALSE
  ELSE IF Cardinality(games) > 0 THEN FALSE
  ELSE t - last >= Max(1, CONFIG.matchmaking.timeout) * 60

\* asyncio.Task.done(): finished, with a result or with an exception
TaskDone(state) == state \in {"done", "failed"}

\* mutant: deque.pop(), the right end, where the source has popleft()
pop_right(q) == <<q[Len(q)], SubSeq(q, 1, Len(q) - 1)>>

\* deque.popleft(): <<the value returned, the deque left>>
popleft(q) == <<Head(q), Tail(q)>>

\* mutant: the cancellation drops the head of the queue, whatever x is
deque_remove_head(q, x) == Tail(q)

\* deque.remove(x): drops the first occurrence of x
deque_remove(q, x) ==
  LET i == CHOOSE k \in 1..Len(q) : q[k] = x /\ \A j \in 1..(k - 1) : q[j] # x
  IN SubSeq(q, 1, i - 1) \o SubSeq(q, i + 1, Len(q))

\* history: drops the latest occurrence of x, the one still waiting
DropLatest(h, x) ==
  LET i == CHOOSE k \in 1..Len(h) : h[k] = x /\ \A j \in (k + 1)..Len(h) : h[j] # x
  IN SubSeq(h, 1, i - 1) \o SubSeq(h, i + 1, Len(h))

\* mutant: on_ping without its cleanup of the table
clean_games_none(games, tasks) == games

\* the dict comprehension of on_ping
clean_games(games, tasks) == {g \in games : ~TaskDone(tasks[g])}

\* mutant: on_game_start without its check of the limit
game_start_branch_nolimit(game_id, games) ==
  IF game_id \in games THEN "tracked" ELSE "start"

\* the branch on_game_start takes for game_id
game_start_branch(game_id, games) ==
  IF game_id \in games THEN "tracked"
  ELSE IF ~is_under_concurrency_limit(games) THEN "abort"
  ELSE "start"

\* mutant: at the limit the new game is dropped without an abort request
OnGameStartRequests_silent(branch, game_id) == <<>>

\* the requests on_game_start issues on each of its branches
OnGameStartRequests(branch, game_id) ==
  IF branch = "abort" THEN <<Req("abort", game_id)>> ELSE <<>>

\* `if under limit and queue: accept(queue.popleft())' of on_ping and
\* on_game_finish, for the table `games'
ServiceQueue(games) ==
  IF is_under_concurrency_limit(games) /\ challenge_queue # <<>>
  THEN /\ requests' = Append(requests, Req("accept", popleft(challenge_queue)[1]))
       /\ challenge_queue' = popleft(challenge_queue)[2]
       /\ serviced' = Append(serviced, popleft(challenge_queue)[1])
  ELSE UNCHANGED <<requests, challenge_queue, serviced>>

\* the ids the requests `reqs' of one kind are for
Issued(reqs, kind) == {reqs[i].id : i \in {j \in DOMAIN reqs : reqs[j].req = kind}}

Accepted(reqs) == Issued(reqs, "accept")

\* the id whose gameStart the step handles, if it handles one
StartHandled == IF mgr_pc = "handle" /\ event.type = "gameStart" THEN {event.id} ELSE {}

\* the history of the accepted ids after a step that has issued `reqs'
PendingAfter(reqs) ==
  IF pending = <<>> THEN <<>>
  ELSE <<(pending[1] \cup Accepted(reqs)) \ StartHandled>>

(***************************************************************************)
(* watch_event_stream: the next event of the stream arrives.               *)
(***************************************************************************)
Receive ==
  /\ mgr_pc = "stream"
  /\ \E e \in Events :
       /\ e.type = "challenge" => Len(arrivals) < MaxArrivals
       /\ event' = e
  /\ mgr_pc' = "handle"
  /\ requests' = <<>>
  /\ UNCHANGED <<current_games, loop_task, challenge_queue, last_event_time,
                 awaited, arrivals, serviced, canceled>>
  /\ reaped' = {}
  /\ UNCHANGED idle_since
  /\ pending' = PendingAfter(requests')
  /\ UNCHANGED <<gameVars, fnVars>>

(***************************************************************************)
(* Matchmaker.challenge on the bots listed: raises when this account is    *)
(* not among them (next() on an exhausted generator), else challenges the  *)
(* first suitable bot of the shuffled list, if there is one.               *)
(***************************************************************************)
MatchmakerChallenge(bots) ==
  IF ~CONFIG.matchmaking.enabled
  THEN UNCHANGED requests /\ mgr_pc' = "stream"
  ELSE IF \A i \in DOMAIN bots : bots[i].name # username
  THEN UNCHANGED requests /\ mgr_pc' = "error"
  ELSE LET me == bots[CHOOSE i \in DOMAIN bots : bots[i].name = username]
           suitable == {i \in DOMAIN bots : should_challenge(me, bots[i])}
       IN /\ mgr_pc' = "stream"
          /\ IF suitable = {} THEN UNCHANGED requests
             ELSE \E i \in suitable :
                    requests' = Append(requests, Req("create_challenge", bots[i].name))

(***************************************************************************)
(* GameManager.on_ping                                                     *)
(***************************************************************************)
OnPing ==
  /\ mgr_pc = "handle" /\ event.type = "ping"
  /\ LET kept == clean_games(current_games, loop_task)
     IN /\ current_games' = kept
        /\ loop_task' = [g \in GameIds |->
                           IF g \in current_games \ kept THEN "none" ELSE loop_task[g]]
        /\ IF is_under_concurrency_limit(kept) /\ challenge_queue # <<>>
           THEN /\ ServiceQueue(kept)
                /\ mgr_pc' = "stream"
                /\ UNCHANGED <<last_event_time, idle_since>>
           ELSE \E t \in ClockReadings :
                  /\ monotonic(t)
                  /\ IF should_create_challenge(kept, t, last_event_time)
                     THEN /\ last_event_time' = t
                          /\ idle_since' = t
                          /\ \E bots \in BotLists : MatchmakerChallenge(bots)
                          /\ UNCHANGED <<challenge_queue, serviced>>
                     ELSE /\ mgr_pc' = "stream"
                          /\ UNCHANGED <<last_event_time, idle_since, requests,
                                         challenge_queue, serviced>>
  /\ event' = NoEvent
  /\ UNCHANGED <<awaited, arrivals, canceled>>
  /\ reaped' = current_games \ clean_games(current_games, loop_task)
  /\ pending' = PendingAfter(requests')
  /\ UNCHANGED <<gameVars, fnVars>>

(***************************************************************************)
(* GameManager.on_game_start                                               *)
(***************************************************************************)
OnGameStart ==
  /\ mgr_pc = "handle" /\ event.type = "gameStart"
  /\ \E t \in ClockReadings : monotonic(t) /\ last_event_time' = t /\ idle_since' = t
  /\ LET game_id == event.id
         branch == game_start_branch(game_id, current_games)
     IN /\ requests' = requests \o OnGameStartRequests(branch, game_id)
        /\ IF branch = "start"
           THEN /\ loop_task' = [loop_task EXCEPT ![game_id] = "running"]
                /\ current_games' = current_games \cup {game_id}
           ELSE UNCHANGED <<current_games, loop_task>>
  /\ mgr_pc' = "stream"
  /\ event' = NoEvent
  /\ UNCHANGED <<challenge_queue, awaited, arrivals, serviced, canceled>>
  /\ UNCHANGED reaped
  /\ pending' = PendingAfter(requests')
  /\ UNCHANGED <<gameVars, fnVars>>

\* mutant: the table popped without the test `in self.current_games', a
\* KeyError for an id that is not tracked
OnGameFinish_keyerror ==
  /\ mgr_pc = "handle" /\ event.type = "gameFinish"
  /\ \E t \in ClockReadings : monotonic(t) /\ last_event_time' = t /\ idle_since' = t
  /\ IF event.id \in current_games
     THEN /\ current_games' = current_games \ {event.id}
          /\ awaited' = event.id
          /\ mgr_pc' = "await_loop_task"
          /\ UNCHANGED <<requests, challenge_queue, serviced>>
     ELSE /\ mgr_pc' = "error"
          /\ UNCHANGED <<requests, challenge_queue, serviced, current_games, awaited>>
  /\ event' = (IF event.id \in current_games THEN event ELSE NoEvent)
  /\ UNCHANGED <<loop_task, arrivals, canceled>>
  /\ UNCHANGED reaped
  /\ pending' = PendingAfter(requests')
  /\ UNCHANGED <<gameVars, fnVars>>

(***************************************************************************)
(* GameManager.on_game_finish, up to `await game.loop_task' when the game  *)
(* is tracked, whole when it is not.                                       *)
(***************************************************************************)
OnGameFinish ==
  /\ mgr_pc = "handle" /\ event.type = "gameFinish"
  /\ \E t \in ClockReadings : monotonic(t) /\ last_event_time' = t /\ idle_since' = t
  /\ IF event.id \in current_games
     THEN /\ current_games' = current_games \ {event.id}
          /\ awaited' = event.id
          /\ mgr_pc' = "await_loop_task"
          /\ UNCHANGED <<requests, challenge_queue, serviced>>
     ELSE /\ ServiceQueue(current_games)
          /\ mgr_pc' = "stream"
          /\ UNCHANGED <<current_games, awaited>>
  /\ event' = (IF event.id \in current_games THEN event ELSE NoEvent)
  /\ UNCHANGED <<loop_task, arrivals, canceled>>
  /\ UNCHANGED reaped
  /\ pending' = PendingAfter(requests')
  /\ UNCHANGED <<gameVars, fnVars>>

(***************************************************************************)
(* on_game_finish from `await game.loop_task' on: the await returns once   *)
(* the task is done and re-raises the exception the task ended with.       *)
(***************************************************************************)
AwaitLoopTask ==
  /\ mgr_pc = "await_loop_task"
  /\ TaskDone(loop_task[awaited])
  /\ IF loop_task[awaited] = "failed"
     THEN /\ mgr_pc' = "error"
          /\ UNCHANGED <<requests, challenge_queue, serviced>>
     ELSE /\ ServiceQueue(current_games)
          /\ mgr_pc' = "stream"
  /\ loop_task' = [loop_task EXCEPT ![awaited] = "none"]
  /\ awaited' = NoGame
  /\ event' = NoEvent
  /\ UNCHANGED <<current_games, last_event_time, arrivals, canceled>>
  /\ UNCHANGED reaped
  /\ UNCHANGED idle_since
  /\ pending' = PendingAfter(requests')
  /\ UNCHANGED <<gameVars, fnVars>>

(***************************************************************************)
(* GameManager.on_challenge                                                *)
(***************************************************************************)
challenger_name(challenge_info) ==
  IF challenge_info.challenger # <<>> THEN challenge_info.challenger[1].name
  ELSE "Anonymous"

\* mutant: on_challenge without its test for a challenge of this account
challenge_branch_noown(challenge_id, challenge_info, queue, games) ==
  IF challenge_id \in Range(queue) THEN "queued"
  ELSE IF check_decline_reason(CONFIG, challenge_info) # NoReason THEN "decline"
  ELSE IF is_under_concurrency_limit(games) THEN "accept"
  ELSE "enqueue"

\* the branch on_challenge takes
challenge_branch(challenge_id, challenge_info, queue, games) ==
  IF challenge_id \in Range(queue) THEN "queued"
  ELSE IF challenger_name(challenge_info) = username THEN "own"
  ELSE IF check_decline_reason(CONFIG, challenge_info) # NoReason THEN "decline"
  ELSE IF is_under_concurrency_limit(games) THEN "accept"
  ELSE "enqueue"

OnChallenge ==
  /\ mgr_pc = "handle" /\ event.type = "challenge"
  /\ \E t \in ClockReadings : monotonic(t) /\ last_event_time' = t /\ idle_since' = t
  /\ canceled' = canceled \ {event.id}
  /\ LET challenge_id == event.id
         branch == challenge_branch(challenge_id, event.challenge, challenge_queue,
                                    current_games)
     IN CASE branch \in {"queued", "own"} ->
               UNCHANGED <<requests, challenge_queue, arrivals>>
          [] branch = "decline" ->
               /\ requests' =
                    Append(requests,
                           [req |-> "decline", id |-> challenge_id,
                            reason |-> check_decline_reason(CONFIG, event.challenge)])
               /\ UNCHANGED <<challenge_queue, arrivals>>
          [] branch = "accept" ->
               /\ requests' = Append(requests, Req("accept", challenge_id))
               /\ UNCHANGED <<challenge_queue, arrivals>>
          [] branch = "enqueue" ->
               /\ challenge_queue' = Append(challenge_queue, challenge_id)
               /\ arrivals' = Append(arrivals, challenge_id)
               /\ UNCHANGED requests
  /\ mgr_pc' = "stream"
  /\ event' = NoEvent
  /\ UNCHANGED <<current_games, loop_task, awaited, serviced>>
  /\ UNCHANGED reaped
  /\ pending' = PendingAfter(requests')
  /\ UNCHANGED <<gameVars, fnVars>>

(***************************************************************************)
(* GameManager.on_challenge_canceled                                       *)
(***************************************************************************)
OnChallengeCanceled ==
  /\ mgr_pc = "handle" /\ event.type = "challengeCanceled"
  /\ \E t \in ClockReadings : monotonic(t) /\ last_event_time' = t /\ idle_since' = t
  /\ IF event.id \in Range(challenge_queue)
     THEN /\ challenge_queue' = deque_remove(challenge_queue, event.id)
          /\ arrivals' = DropLatest(arrivals, event.id)
          /\ canceled' = canceled \cup {event.id}
     ELSE UNCHANGED <<challenge_queue, arrivals, canceled>>
  /\ mgr_pc' = "stream"
  /\ event' = NoEvent
  /\ UNCHANGED <<current_games, loop_task, awaited, requests, serviced>>
  /\ UNCHANGED reaped
  /\ pending' = PendingAfter(requests')
  /\ UNCHANGED <<gameVars, fnVars>>

(***************************************************************************)
(* watch_event_stream has no branch for challengeDeclined.                 *)
(***************************************************************************)
OnChallengeDeclined ==
  /\ mgr_pc = "handle" /\ event.type = "challengeDeclined"
  /\ mgr_pc' = "stream"
  /\ event' = NoEvent
  /\ UNCHANGED <<current_games, loop_task, challenge_queue, last_event_time,
                 awaited, requests, arrivals, serviced, canceled>>
  /\ UNCHANGED reaped
  /\ UNCHANGED idle_since
  /\ pending' = PendingAfter(requests')
  /\ UNCHANGED <<gameVars, fnVars>>

(***************************************************************************)
(* The environment of the manager: a tracked Game's loop task ends, with   *)
(* a result or with an exception.            *)
(***************************************************************************)
LoopTaskEnds ==
  /\ \E g \in GameIds, outcome \in {"done", "failed"} :
       /\ loop_task[g] = "running"
       /\ loop_task' = [loop_task EXCEPT ![g] = outcome]
  /\ UNCHANGED <<current_games, challenge_queue, last_event_time, mgr_pc,
                 event, awaited, requests, arrivals, serviced, canceled>>
  /\ UNCHANGED reaped
  /\ UNCHANGED idle_since
  /\ pending' = PendingAfter(requests')
  /\ UNCHANGED <<gameVars, fnVars>>

MgrNext ==
  \/ Receive
  \/ OnPing
  \/ OnGameStart
  \/ OnGameFinish
  \/ AwaitLoopTask
  \/ OnChallenge
  \/ OnChallengeCanceled
  \/ OnChallengeDeclined
  \/ LoopTaskEnds

(***************************************************************************)
(* One Game (game.py).  The board is its move stack: make_board replays    *)
(* the move list of the event from the initial position.                   *)
(***************************************************************************)
GameStatus ==
  {"created", "started", "aborted", "mate", "resign", "stalemate", "timeout",
   "draw", "outoftime", "cheat", "noStart", "unknownFinish", "variantEnd"}

\* the statuses the events of the stream carry: the two of a running game and
\* two of a finished one
StreamStatuses == {"created", "started", "mate", "resign"}

Moves == {"e2e4", "e7e5"}

MoveLists == UNION {[1..n -> Moves] : n \in 0..MaxPly}

\* the evaluations the engine reports, in centipawns for the side to move
ScoreValues == {-800, 10}

is_game_over(st) == st \notin {"started", "created"}

turn(b) == IF Len(b) % 2 = 0 THEN "white" ELSE "black"

is_our_turn(b, c) == c = turn(b)

fullmove_number(b) == (Len(b) \div 2) + 1

make_board(moves) == moves

\* mutant: update comparing the lengths with < where the source has <=
update_rebuilds_lt(moves, b) == ~(Len(moves) < Len(b))

\* Game.update: whether it rebuilds the board (its return value)
update_rebuilds(moves, b) == ~(Len(moves) <= Len(b))

should_use_book(b) ==
  IF ~CONFIG.books.enabled THEN FALSE
  ELSE fullmove_number(b) <= CONFIG.books.depth

\* the indices of self.scores[-n:]
LastScores(sc, n) ==
  IF n = 0 THEN 1..Len(sc) ELSE (Max(Len(sc) - n, 0) + 1)..Len(sc)

\* Game.should_draw under the configuration cfg
should_draw_with(cfg, b, sc) ==
  IF ~cfg.draw.enabled THEN FALSE
  ELSE IF fullmove_number(b) < cfg.draw.min_game_length THEN FALSE
  ELSE IF Len(sc) < cfg.draw.moves THEN FALSE
  ELSE \A i \in LastScores(sc, cfg.draw.moves) : Abs(sc[i]) <= cfg.draw.score

should_draw(b, sc) == should_draw_with(CONFIG, b, sc)

\* mutant: the evaluations compared with < where the source has <=
should_resign_lt(cfg, sc) ==
  IF ~cfg.resign.enabled THEN FALSE
  ELSE IF Len(sc) < cfg.resign.moves THEN FALSE
  ELSE \A i \in LastScores(sc, cfg.resign.moves) : sc[i] < cfg.resign.score

\* Game.should_resign under the configuration cfg
should_resign_with(cfg, sc) ==
  IF ~cfg.resign.enabled THEN FALSE
  ELSE IF Len(sc) < cfg.resign.moves THEN FALSE
  ELSE \A i \in LastScores(sc, cfg.resign.moves) : sc[i] <= cfg.resign.score

should_resign(sc) == should_resign_with(CONFIG, sc)

(***************************************************************************)
(* The events of the per-game stream.                                      *)
(***************************************************************************)
\* `elapsed' is what the ping branch reads from the clock:
\* time.monotonic() - start_time >= CONFIG["abort_time"]
MkGameEvent(type, st, moves, claim, elapsed) ==
  [type |-> type, status |-> st, moves |-> moves, claimWinInSeconds |-> claim,
   elapsed |-> elapsed, wtime |-> 60000, btime |-> 58000, winc |-> 1000, binc |-> 1000]

GameEvents ==
  {MkGameEvent(t, st, m, 0, FALSE) :
     t \in {"gameFull", "gameState"}, st \in StreamStatuses, m \in MoveLists}
  \cup {MkGameEvent("opponentGone", "", <<>>, c, FALSE) : c \in {0, 10}}
  \cup {MkGameEvent("ping", "", <<>>, 0, el) : el \in BOOLEAN}
  \cup {MkGameEvent("chatLine", "", <<>>, 0, FALSE)}

NoGameEvent == MkGameEvent("none", "", <<>>, 0, FALSE)

NoPly == -1

NoClock == [white_clock |-> 0, black_clock |-> 0, white_inc |-> 0, black_inc |-> 0]

GameInit ==
  /\ status = "started"
  /\ board = make_board(<<>>)
  /\ color \in {"white", "black"}
  /\ clock = NoClock
  /\ scores = <<>>
  /\ engine = "none"
  /\ quit_calls = 0
  /\ loop_pc = "start_engine"
  /\ gevent = NoGameEvent
  /\ move_tasks = <<>>
  /\ actor = "none"
  /\ game_out = <<>>
  /\ abort_requests = 0
  /\ decided_ply = NoPly

\* the state of the Game variables under Spec, which follows no Game
NoGameFollowed ==
  /\ status = "started"
  /\ board = <<>>
  /\ color = "white"
  /\ clock = NoClock
  /\ scores = <<>>
  /\ engine = "none"
  /\ quit_calls = 0
  /\ loop_pc = "none"
  /\ gevent = NoGameEvent
  /\ move_tasks = <<>>
  /\ actor = "none"
  /\ game_out = <<>>
  /\ abort_requests = 0
  /\ decided_ply = NoPly

(***************************************************************************)
(* Game.watch_game_stream                                                  *)
(***************************************************************************)
\* await self.start_engine(): the engine process starts, or popen_uci raises
StartEngine ==
  /\ loop_pc = "start_engine"
  /\ \/ engine' = "running" /\ loop_pc' = "stream"
     \/ engine' = "none" /\ loop_pc' = "error"
  /\ actor' = "loop"
  /\ game_out' = <<>>
  /\ UNCHANGED <<status, board, color, clock, scores, quit_calls, gevent, move_tasks>>
  /\ abort_requests' = 0
  /\ UNCHANGED decided_ply
  /\ UNCHANGED <<mgrVars, fnVars>>

\* mutant: the loop left without forcing UNKNOWN_FINISH
status_after_loop_kept(st) == st

\* `if not self.is_game_over: self.status = GameStatus.UNKNOWN_FINISH'
status_after_loop(st) == IF ~is_game_over(st) THEN "unknownFinish" ELSE st

\* engine.quit() sent to the process
engine_quit(e) == IF e = "running" THEN "quit" ELSE e

\* the board after the event: update() for gameFull and gameState
BoardAfter(e) ==
  IF e.type \in {"gameFull", "gameState"} /\ update_rebuilds(e.moves, board)
  THEN make_board(e.moves) ELSE board

should_make_move(e) ==
  CASE e.type = "gameFull" -> is_our_turn(BoardAfter(e), color)
    [] e.type = "gameState" ->
         update_rebuilds(e.moves, board) /\ is_our_turn(BoardAfter(e), color)
    [] OTHER -> FALSE

StatusAfter(e) == IF e.type \in {"gameFull", "gameState"} THEN e.status ELSE status

\* the request the branch of the event posts
EventRequests(e) ==
  CASE e.type = "opponentGone" /\ e.claimWinInSeconds = 0 /\ ~is_our_turn(board, color)
         -> <<"claim_victory">>
    [] e.type = "ping" /\ Len(board) < 2 /\ ~is_our_turn(board, color) /\ e.elapsed
         -> <<"abort">>
    [] OTHER -> <<>>

\* one turn of the `async for': the event e arrives and its branch runs, to
\* the next await (the next event, gather or engine.quit())
LoopBody(e) ==
  /\ loop_pc = "stream"
  /\ (~is_game_over(StatusAfter(e)) /\ should_make_move(e))
       => Len(move_tasks) < MaxMoveTasks
  /\ status' = StatusAfter(e)
  /\ board' = BoardAfter(e)
  /\ clock' = IF e.type \in {"gameFull", "gameState"}
              THEN [white_clock |-> e.wtime \div 1000, black_clock |-> e.btime \div 1000,
                    white_inc |-> e.winc \div 1000, black_inc |-> e.binc \div 1000]
              ELSE clock
  /\ game_out' = EventRequests(e)
  /\ IF is_game_over(StatusAfter(e))
     THEN /\ engine' = engine_quit(engine)
          /\ quit_calls' = quit_calls + 1
          /\ loop_pc' = "quitting"
     ELSE /\ loop_pc' = IF should_make_move(e) THEN "gather" ELSE "stream"
          /\ UNCHANGED <<engine, quit_calls>>
  /\ actor' = "loop"
  /\ EventRequests(e) = <<"abort">> => abort_requests < MaxAborts
  /\ abort_requests' = IF EventRequests(e) = <<"abort">> THEN abort_requests + 1 ELSE 0
  /\ UNCHANGED <<color, scores, move_tasks, decided_ply>>
  /\ UNCHANGED <<mgrVars, fnVars>>

\* the loop body on each kind of event the stream delivers
OnGameFull ==
  /\ \E e \in GameEvents : e.type = "gameFull" /\ LoopBody(e)
  /\ UNCHANGED gevent

OnGameState ==
  /\ \E e \in GameEvents : e.type = "gameState" /\ LoopBody(e)
  /\ UNCHANGED gevent

OnOpponentGone ==
  /\ \E e \in GameEvents : e.type = "opponentGone" /\ LoopBody(e)
  /\ UNCHANGED gevent

OnGamePing ==
  /\ \E e \in GameEvents : e.type = "ping" /\ LoopBody(e)
  /\ UNCHANGED gevent

OnChatLine ==
  /\ \E e \in GameEvents : e.type = "chatLine" /\ LoopBody(e)
  /\ UNCHANGED gevent

\* the stream ends: lines 339-343, to `await self.engine.quit()'
StreamEnds ==
  /\ loop_pc = "stream"
  /\ status' = status_after_loop(status)
  /\ engine' = engine_quit(engine)
  /\ quit_calls' = quit_calls + 1
  /\ loop_pc' = "quitting"
  /\ actor' = "end"
  /\ game_out' = <<>>
  /\ UNCHANGED <<board, color, clock, scores, gevent, move_tasks>>
  /\ abort_requests' = 0
  /\ UNCHANGED decided_ply
  /\ UNCHANGED <<mgrVars, fnVars>>

QuitReturns ==
  /\ loop_pc = "quitting"
  /\ loop_pc' = "final_gather"
  /\ actor' = "loop"
  /\ game_out' = <<>>
  /\ UNCHANGED <<status, board, color, clock, scores, engine, quit_calls, gevent,
                 move_tasks>>
  /\ abort_requests' = 0
  /\ UNCHANGED decided_ply
  /\ UNCHANGED <<mgrVars, fnVars>>

\* the task has ended with an exception: of the engine ("failed") or of the
\* HTTP transport under its POST ("post_failed")
TaskRaised(t) == t \in {"failed", "post_failed"}

TaskFinished(t) == t = "done" \/ TaskRaised(t)

\* asyncio.gather(*tasks) has an outcome: all done, or one has raised
GatherReady(tasks) ==
  \/ \E i \in DOMAIN tasks : TaskRaised(tasks[i])
  \/ \A i \in DOMAIN tasks : tasks[i] = "done"

GatherRaises(tasks) == \E i \in DOMAIN tasks : TaskRaised(tasks[i])

\* mutant: the new move task created without awaiting the earlier ones
MayCreateMoveTask_nowait(tasks) == TRUE

\* `await asyncio.gather(*move_tasks)' of line 336 lets the loop go on
MayCreateMoveTask(tasks) == GatherReady(tasks)

\* lines 336-337: gather the earlier move tasks, then create the new one
Gather ==
  /\ loop_pc = "gather"
  /\ MayCreateMoveTask(move_tasks)
  /\ IF GatherRaises(move_tasks)
     THEN loop_pc' = "error" /\ UNCHANGED move_tasks
     ELSE loop_pc' = "stream" /\ move_tasks' = Append(move_tasks, "created")
  /\ decided_ply' = IF GatherRaises(move_tasks) THEN decided_ply ELSE Len(board)
  /\ actor' = "loop"
  /\ game_out' = <<>>
  /\ UNCHANGED <<status, board, color, clock, scores, engine, quit_calls, gevent>>
  /\ abort_requests' = 0
  /\ UNCHANGED <<mgrVars, fnVars>>

\* line 344
FinalGather ==
  /\ loop_pc = "final_gather"
  /\ GatherReady(move_tasks)
  /\ loop_pc' = IF GatherRaises(move_tasks) THEN "error" ELSE "done"
  /\ actor' = "loop"
  /\ game_out' = <<>>
  /\ UNCHANGED <<status, board, color, clock, scores, engine, quit_calls, gevent,
                 move_tasks>>
  /\ abort_requests' = 0
  /\ UNCHANGED decided_ply
  /\ UNCHANGED <<mgrVars, fnVars>>

(***************************************************************************)
(* Game.make_move, one task per entry of move_tasks.                       *)
(***************************************************************************)
\* `except chess.engine.EngineTerminatedError': <<requests, task state>>
OnEngineTerminated(st) ==
  IF ~is_game_over(st) THEN <<(<<"resign">>), "resigning_raise">> ELSE <<(<<>>), "done">>

\* lines 286-298, once the search has returned a move: <<requests, task state>>
AfterSearchWith(cfg, st, b, sc) ==
  IF is_game_over(st) THEN <<(<<>>), "done">>
  ELSE IF should_resign_with(cfg, sc) THEN <<(<<"resign">>), "resigning">>
  ELSE IF should_draw_with(cfg, b, sc) THEN <<(<<"make_move", "offeringDraw">>), "posting">>
  ELSE <<(<<"make_move">>), "posting">>

AfterSearch(st, b, sc) == AfterSearchWith(CONFIG, st, b, sc)

\* the task starts: book move and its POST, or the call of engine.play
MoveTaskStart ==
  /\ \E i \in DOMAIN move_tasks, book_move \in BOOLEAN :
       /\ move_tasks[i] = "created"
       /\ IF should_use_book(board) /\ book_move
          THEN /\ game_out' = <<"make_move">>
               /\ move_tasks' = [move_tasks EXCEPT ![i] = "posting"]
          ELSE IF engine = "running"
          THEN /\ game_out' = <<>>
               /\ move_tasks' = [move_tasks EXCEPT ![i] = "searching"]
          ELSE /\ game_out' = OnEngineTerminated(status)[1]
               /\ move_tasks' = [move_tasks EXCEPT ![i] = OnEngineTerminated(status)[2]]
  /\ actor' = "task"
  /\ UNCHANGED <<status, board, color, clock, scores, engine, quit_calls, loop_pc,
                 gevent>>
  /\ abort_requests' = 0
  /\ UNCHANGED decided_ply
  /\ UNCHANGED <<mgrVars, fnVars>>

\* engine.play returns a move and its evaluation
SearchReturnsMove ==
  /\ \E i \in DOMAIN move_tasks, sc \in ScoreValues :
       /\ move_tasks[i] = "searching"
       /\ engine \in {"running", "quit"}
       /\ scores' = Append(scores, sc)
       /\ game_out' = AfterSearch(status, board, Append(scores, sc))[1]
       /\ move_tasks' =
            [move_tasks EXCEPT ![i] = AfterSearch(status, board, Append(scores, sc))[2]]
  /\ actor' = "task"
  /\ UNCHANGED <<status, board, color, clock, engine, quit_calls, loop_pc, gevent>>
  /\ abort_requests' = 0
  /\ UNCHANGED decided_ply
  /\ UNCHANGED <<mgrVars, fnVars>>

\* engine.play returns no move: RuntimeError of get_engine_move
SearchReturnsNoMove ==
  /\ \E i \in DOMAIN move_tasks :
       /\ move_tasks[i] = "searching"
       /\ engine = "running"
       /\ move_tasks' = [move_tasks EXCEPT ![i] = "failed"]
  /\ game_out' = <<>>
  /\ actor' = "task"
  /\ UNCHANGED <<status, board, color, clock, scores, engine, quit_calls, loop_pc,
                 gevent>>
  /\ abort_requests' = 0
  /\ UNCHANGED decided_ply
  /\ UNCHANGED <<mgrVars, fnVars>>

\* engine.play raises EngineTerminatedError: the process has quit, or dies
SearchTerminated ==
  /\ \E i \in DOMAIN move_tasks :
       /\ move_tasks[i] = "searching"
       /\ engine' = IF engine = "running" THEN "dead" ELSE engine
       /\ game_out' = OnEngineTerminated(status)[1]
       /\ move_tasks' = [move_tasks EXCEPT ![i] = OnEngineTerminated(status)[2]]
  /\ actor' = "task"
  /\ UNCHANGED <<status, board, color, clock, scores, quit_calls, loop_pc, gevent>>
  /\ abort_requests' = 0
  /\ UNCHANGED decided_ply
  /\ UNCHANGED <<mgrVars, fnVars>>

\* the POST of the task returns; after the resignation of the except branch
\* the task re-raises
PostReturns ==
  /\ \E i \in DOMAIN move_tasks :
       /\ move_tasks[i] \in {"posting", "resigning", "resigning_raise"}
       /\ move_tasks' =
            [move_tasks EXCEPT ![i] =
               IF move_tasks[i] = "resigning_raise" THEN "failed" ELSE "done"]
  /\ game_out' = <<>>
  /\ actor' = "task"
  /\ UNCHANGED <<status, board, color, clock, scores, engine, quit_calls, loop_pc,
                 gevent>>
  /\ abort_requests' = 0
  /\ UNCHANGED decided_ply
  /\ UNCHANGED <<mgrVars, fnVars>>

\* the POST of the task raises an exception of the HTTP transport, which
\* neither Lichess.post nor make_move catches
PostRaises ==
  /\ \E i \in DOMAIN move_tasks :
       /\ move_tasks[i] \in {"posting", "resigning", "resigning_raise"}
       /\ move_tasks' = [move_tasks EXCEPT ![i] = "post_failed"]
  /\ game_out' = <<>>
  /\ actor' = "task"
  /\ UNCHANGED <<status, board, color, clock, scores, engine, quit_calls, loop_pc,
                 gevent>>
  /\ abort_requests' = 0
  /\ UNCHANGED decided_ply
  /\ UNCHANGED <<mgrVars, fnVars>>

GameNext ==
  \/ StartEngine
  \/ OnGameFull
  \/ OnGameState
  \/ OnOpponentGone
  \/ OnGamePing
  \/ OnChatLine
  \/ StreamEnds
  \/ QuitReturns
  \/ Gather
  \/ FinalGather
  \/ MoveTaskStart
  \/ SearchReturnsMove
  \/ SearchReturnsNoMove
  \/ SearchTerminated
  \/ PostReturns
  \/ PostRaises

(***************************************************************************)
(* The specifications.                                                     *)
(***************************************************************************)
\* no function is followed on its own
NoCall == [fn |-> "none"]

NoCallFollowed == call = NoCall /\ ret = <<>>

Init == MgrInit /\ NoGameFollowed /\ NoCallFollowed

Next == MgrNext

Spec == Init /\ [][Next]_vars

InitGame == MgrInit /\ GameInit /\ NoCallFollowed

SpecGame == InitGame /\ [][GameNext]_vars

\* the loop body on its own: every event on every board, colour and status
\* the loop can be waiting in
UpdateInit ==
  /\ status \in {"created", "started"}
  /\ board \in MoveLists
  /\ color \in {"white", "black"}
  /\ clock = NoClock
  /\ scores = <<>>
  /\ engine = "running"
  /\ quit_calls = 0
  /\ loop_pc = "stream"
  /\ gevent \in GameEvents
  /\ move_tasks = <<>>
  /\ actor = "none"
  /\ game_out = <<>>
  /\ abort_requests = 0
  /\ decided_ply = NoPly

ApplyEvent == LoopBody(gevent) /\ UNCHANGED gevent

InitUpdate == MgrInit /\ UpdateInit /\ NoCallFollowed

SpecUpdate == InitUpdate /\ [][ApplyEvent]_vars

TypeOK ==
  /\ current_games \subseteq GameIds
  /\ loop_task \in [GameIds -> {"none", "running", "done", "failed"}]
  /\ Range(challenge_queue) \subseteq ChallengeIds
  /\ mgr_pc \in {"stream", "handle", "await_loop_task", "error"}
  /\ last_event_time \in ClockReadings
  /\ reaped \subseteq GameIds
  /\ idle_since \in ClockReadings
  /\ pending \in {<<>>} \cup {<<ids>> : ids \in SUBSET ChallengeIds}
  /\ status \in GameStatus
  /\ board \in MoveLists
  /\ color \in {"white", "black"}
  /\ Range(scores) \subseteq ScoreValues
  /\ engine \in {"none", "running", "quit", "dead"}
  /\ quit_calls \in 0..1
  /\ loop_pc \in {"none", "start_engine", "stream", "gather", "quitting",
                  "final_gather", "done", "error"}
  /\ Range(move_tasks) \subseteq
       {"created", "searching", "posting", "resigning", "resigning_raise",
        "done", "failed", "post_failed"}
  /\ Len(move_tasks) <= MaxMoveTasks
  /\ actor \in {"none", "loop", "end", "task"}
  /\ abort_requests \in 0..MaxAborts
  /\ decided_ply \in {NoPly} \cup 0..MaxPly

(***************************************************************************)
(* Properties of the GameManager, under Spec.                              *)
(***************************************************************************)
\* a step in which the handler of `event' runs to its end (or to its raise)
HandlerStep == mgr_pc = "handle" /\ mgr_pc' # "handle"

\* the handler has issued the abort request for g and no other request
OnlyAbort(reqs, g) == Len(reqs) = 1 /\ reqs[1].req = "abort" /\ reqs[1].id = g

\* C1: in every reachable state the game table holds at most
\* CONFIG["concurrency"] entries.
C1_TableWithinLimit == Cardinality(current_games) <= CONFIG.concurrency

C1_Witness ==
  /\ Cardinality(current_games) = CONFIG.concurrency
  /\ Issued(requests, "abort") # {}

\* C2: handling a gameStart for an untracked id while the table is at the limit
\* issues the abort request for that id and nothing else, constructs no Game
\* (no loop task is created), leaves table and queue as they were and does not
\* raise.
C2_AbortAtLimit ==
  [][ ( /\ HandlerStep
        /\ event.type = "gameStart"
        /\ event.id \notin current_games
        /\ Cardinality(current_games) >= CONFIG.concurrency )
      => ( /\ OnlyAbort(requests', event.id)
           /\ current_games' = current_games
           /\ loop_task' = loop_task
           /\ challenge_queue' = challenge_queue
           /\ mgr_pc' = "stream" ) ]_vars

C2_Witness ==
  \E g \in GameIds :
    /\ OnlyAbort(requests, g)
    /\ g \notin current_games
    /\ loop_task[g] = "none"
    /\ Cardinality(current_games) = CONFIG.concurrency
    /\ challenge_queue # <<>>

\* C3: whenever the handler of the current event has issued an accept request,
\* for the challenge of the event or for one taken from the queue, the table
\* it issued it on holds fewer than CONFIG["concurrency"] games.
C3_AcceptBelowLimit ==
  Accepted(requests) # {} => Cardinality(current_games) < CONFIG.concurrency

C3_Witness ==
  /\ Accepted(requests) # {}
  /\ Cardinality(current_games) = CONFIG.concurrency - 1
  /\ serviced # <<>>

\* C4: the ids accepted from the queue, in the order of their accept requests,
\* are the first of the ids queued, in the order they were queued (entries
\* removed by a cancellation left out): an id queued before another is
\* accepted before it.
C4_QueueFifo ==
  /\ Len(serviced) <= Len(arrivals)
  /\ \A i \in 1..Len(serviced) : serviced[i] = arrivals[i]

C4_Witness == Len(serviced) >= 2 /\ serviced[1] # serviced[2]

\* C5: a challengeCanceled for a queued id takes exactly that id out of the
\* queue, one for an id not queued leaves the queue as it is, neither raises;
\* and no accept request is issued for an id canceled out of the queue unless
\* a challenge event has carried the id again.
C5_CanceledNeverAccepted ==
  [][ /\ ( HandlerStep /\ event.type = "challengeCanceled" )
         => /\ challenge_queue' =
                 SelectSeq(challenge_queue, LAMBDA c : c # event.id)
            /\ event.id \notin Range(challenge_queue')
            /\ mgr_pc' = "stream"
      /\ Accepted(requests') \cap canceled' = {} ]_vars

C5_Witness ==
  /\ canceled # {}
  /\ Accepted(requests) # {}
  /\ serviced # <<>>

(***************************************************************************)
(* Properties of one Game, under SpecGame and SpecUpdate.                  *)
(***************************************************************************)
\* the move tasks that have been created and have not completed
InFlight(tasks) == {i \in DOMAIN tasks : ~TaskFinished(tasks[i])}

\* the `async for' has been left at its end, by `break' or with the stream
LoopLeft == loop_pc \in {"quitting", "final_gather", "done"}

\* C6: once the status of the Game is terminal no step issues a make-move
\* request, and engine.quit() has been called exactly once.
C6_NoMoveAfterTerminal ==
  /\ is_game_over(status) => "make_move" \notin Range(game_out)
  /\ is_game_over(status) => quit_calls = 1

C8_EngineTerminatedOnExit ==
  loop_pc \in {"done", "error"} => engine # "running"

\* C9: the loop body run on a gameState event whose move list is no longer than
\* the move stack of the board leaves the board as it is, does not go on to
\* gather and create a move task, and creates none.
C9_StaleGameStateIsNoOp ==
  [][ ( /\ loop_pc = "stream"
        /\ gevent.type = "gameState"
        /\ Len(gevent.moves) <= Len(board) )
      => ( /\ board' = board
           /\ loop_pc' # "gather"
           /\ move_tasks' = move_tasks ) ]_vars

C9_Witness ==
  /\ actor = "loop"
  /\ loop_pc = "stream"
  /\ gevent.type = "gameState"
  /\ Len(gevent.moves) = Len(board)
  /\ gevent.moves # board
  /\ is_our_turn(board, color)

\* C10: at most one move task is in flight, and a move task that has not
\* completed is the one created last: every task created before it has
\* completed.
C10_OneMoveTaskInFlight ==
  /\ Cardinality(InFlight(move_tasks)) <= 1
  /\ \A i \in InFlight(move_tasks) : i = Len(move_tasks)

C10_Witness ==
  /\ loop_pc = "gather"
  /\ move_tasks # <<>>
  /\ move_tasks[Len(move_tasks)] = "searching"

(***************************************************************************)
(* Further properties of the GameManager, under Spec.                      *)
(***************************************************************************)
\* C11: when on_game_finish has awaited the loop task of the finished game,
\* whatever that task ended with, the manager goes back to its event stream
\* and the loop tasks of the other games are as they were.
C11_GameFailureIsolated ==
  [][ (mgr_pc = "await_loop_task" /\ mgr_pc' # "await_loop_task")
      => ( /\ mgr_pc' = "stream"
           /\ \A g \in GameIds \ {awaited} : loop_task'[g] = loop_task[g] ) ]_vars

(***************************************************************************)
(* GameManager.check_decline_reason on its own: every challenge of         *)
(* DeclineChallenges under every configuration of DeclineConfigs.          *)
(***************************************************************************)
DeclineConfigs ==
  { [CONFIG EXCEPT !.challenge =
       [ enabled |-> en, modes |-> mo, opponents |-> op, variants |-> va,
         time_controls |-> tc, min_increment |-> 0, max_increment |-> 180,
         min_initial |-> 60, max_initial |-> 1800,
         max_rating_diffs |-> [bot |-> 400, human |-> 100] ]] :
      en \in BOOLEAN,
      mo \in {{"rated", "casual"}, {"rated"}, {"casual"}},
      op \in {{"bot", "human"}, {"bot"}, {"human"}},
      va \in {<<"standard">>, <<"standard", "atomic">>},
      tc \in {{"bullet", "blitz", "rapid"}, {"blitz", "classical"}} }

DeclineChallenges ==
  [ challenger : {<<>>} \cup { Player("peer", t, r) :
                                 t \in {"BOT", "GM"}, r \in {<<>>, <<1950>>, <<2600>>} },
    destUser : {<<>>, Player(username, "BOT", <<1800>>)},
    rated : BOOLEAN,
    variant : {"standard", "atomic", "horde"},
    speed : {"bullet", "blitz", "classical"},
    limit : {30, 180, 3600},
    increment : {0, 200} ]

DeclineInit ==
  /\ call \in [fn : {"check_decline_reason"}, cfg : DeclineConfigs,
               challenge : DeclineChallenges]
  /\ ret = <<>>

CheckDeclineReason ==
  /\ call.fn = "check_decline_reason"
  /\ ret = <<>>
  /\ ret' = <<check_decline_reason(call.cfg, call.challenge)>>
  /\ UNCHANGED <<call, mgrVars, gameVars>>

InitDecline == MgrInit /\ NoGameFollowed /\ DeclineInit

SpecDecline == InitDecline /\ [][CheckDeclineReason]_vars

\* the checks of the policy in the order of the claim, each on its own: whether
\* challenge ch fails check k under the challenge configuration cc
IsBot(ch) == ch.challenger # <<>> /\ ch.challenger[1].title = "BOT"

FailsCheck(k, cc, ch) ==
  CASE k = 1 -> ~cc.enabled
    [] k = 2 -> (ch.rated /\ "rated" \notin cc.modes)
                \/ (~ch.rated /\ "casual" \notin cc.modes)
    [] k = 3 -> ch.variant \notin Range(cc.variants)
    [] k = 4 -> (IsBot(ch) /\ "bot" \notin cc.opponents)
                \/ (~IsBot(ch) /\ "human" \notin cc.opponents)
    [] k = 5 -> ch.speed \notin cc.time_controls
    [] k = 6 -> ch.limit < cc.min_initial \/ ch.increment < cc.min_increment
    [] k = 7 -> ch.limit > cc.max_initial \/ ch.increment > cc.max_increment
    [] k = 8 -> /\ ch.rated
                /\ ch.destUser # <<>> /\ ch.destUser[1].rating # <<>>
                /\ ch.challenger # <<>> /\ ch.challenger[1].rating # <<>>
                /\ Abs(ch.destUser[1].rating[1] - ch.challenger[1].rating[1])
                     > (IF IsBot(ch) THEN cc.max_rating_diffs.bot
                        ELSE cc.max_rating_diffs.human)

\* the reasons check k declines with
ReasonsOfCheck(k) ==
  CASE k = 1 -> {"generic"}
    [] k = 2 -> {"casual", "rated"}
    [] k = 3 -> {"standard", "variant"}
    [] k = 4 -> {"noBot", "onlyBot"}
    [] k = 5 -> {"timeControl"}
    [] k = 6 -> {"tooFast"}
    [] k = 7 -> {"tooSlow"}
    [] k = 8 -> {"generic"}

FailedChecks(cc, ch) == {k \in 1..8 : FailsCheck(k, cc, ch)}

\* C12: the reason returned is one of the first check, in the order disabled,
\* mode, variant, opponent class, time-control category, too fast, too slow,
\* rating difference, that the challenge fails, and a challenge failing none
\* gets no reason; one failing the variant and the time-control check (and no
\* earlier one) gets the reason of the variant check.
C12_FirstFailingCheck ==
  ret # <<>> =>
    LET failed == FailedChecks(call.cfg.challenge, call.challenge)
    IN IF failed = {} THEN ret[1] = NoReason
       ELSE ret[1] \in ReasonsOfCheck(CHOOSE k \in failed : \A j \in failed : k <= j)

C12_Witness ==
  /\ ret # <<>>
  /\ ret[1] \in {"standard", "variant"}
  /\ {3, 5, 6} \subseteq FailedChecks(call.cfg.challenge, call.challenge)

(***************************************************************************)
(* PerfType.from_standard_tc on its own (enums.py).                        *)
(***************************************************************************)
\* mutant: the first threshold compared with <= where the source has <
from_standard_tc_le(tc_seconds, tc_increment) ==
  LET duration == tc_seconds + 40 * tc_increment
  IN IF duration <= 179 THEN "bullet"
     ELSE IF duration < 479 THEN "blitz"
     ELSE IF duration < 1499 THEN "rapid"
     ELSE "classical"

from_standard_tc(tc_seconds, tc_increment) ==
  LET duration == tc_seconds + 40 * tc_increment
  IN IF duration < 179 THEN "bullet"
     ELSE IF duration < 479 THEN "blitz"
     ELSE IF duration < 1499 THEN "rapid"
     ELSE "classical"

PerfInit ==
  /\ call \in [fn : {"from_standard_tc"}, tc_seconds : 0..MaxSeconds,
               tc_increment : 0..MaxIncrement]
  /\ ret = <<>>

FromStandardTc ==
  /\ call.fn = "from_standard_tc"
  /\ ret = <<>>
  /\ ret' = <<from_standard_tc(call.tc_seconds, call.tc_increment)>>
  /\ UNCHANGED <<call, mgrVars, gameVars>>

InitPerf == MgrInit /\ NoGameFollowed /\ PerfInit

SpecPerf == InitPerf /\ [][FromStandardTc]_vars

\* the time control t+i is classified as category c
Classified(t, i, c) == (call.tc_seconds = t /\ call.tc_increment = i) => ret[1] = c

\* C13: with w = t + 40*i the category is bullet for w < 179, blitz for
\* 179 <= w < 479, rapid for 479 <= w < 1499 and classical from 1499 on; 60+1
\* is bullet, 180+2 blitz, 600+0 rapid, 1800+0 classical, and w = 179 is blitz.
C13_PerfThresholds ==
  ret # <<>> =>
    LET w == call.tc_seconds + 40 * call.tc_increment
    IN /\ ret[1] = "bullet" <=> w < 179
       /\ ret[1] = "blitz" <=> (179 <= w /\ w < 479)
       /\ ret[1] = "rapid" <=> (479 <= w /\ w < 1499)
       /\ ret[1] = "classical" <=> 1499 <= w
       /\ Classified(60, 1, "bullet")
       /\ Classified(180, 2, "blitz")
       /\ Classified(600, 0, "rapid")
       /\ Classified(1800, 0, "classical")
       /\ w = 179 => ret[1] = "blitz"

C13_Witness ==
  /\ ret = <<"blitz">>
  /\ call.tc_seconds + 40 * call.tc_increment = 179
  /\ call.tc_increment > 0

(***************************************************************************)
(* The decision of Game.make_move once the search has returned, on its     *)
(* own: every evaluation history under every resign configuration.         *)
(***************************************************************************)
\* evaluations in centipawns, for the side to move
Evals == {-800, -750, -720, -700, 100}

EvalLists == UNION {[1..n -> Evals] : n \in 0..(MaxWindow + 1)}

ResignInit ==
  /\ call \in [fn : {"make_move"},
               resign : [enabled : BOOLEAN, moves : 1..MaxWindow, score : {-700}],
               scores : EvalLists]
  /\ ret = <<>>

\* game.py:286-298 for a game that is not over, the evaluation of the search
\* being the last of call.scores
DecideAfterSearch ==
  /\ call.fn = "make_move"
  /\ ret = <<>>
  /\ ret' = <<AfterSearchWith([CONFIG EXCEPT !.resign = call.resign], "started",
                              <<>>, call.scores)[1]>>
  /\ UNCHANGED <<call, mgrVars, gameVars>>

InitResign == MgrInit /\ NoGameFollowed /\ ResignInit

SpecResign == InitResign /\ [][DecideAfterSearch]_vars

\* at least n evaluations are recorded and the n most recent are all <= t
WindowAtOrBelow(sc, n, t) ==
  /\ Len(sc) >= n
  /\ \A i \in 1..Len(sc) : i > Len(sc) - n => sc[i] <= t

\* with window 3 and threshold -700 the history sc is answered by request r
ResignExample(sc, r) ==
  (call.resign = [enabled |-> TRUE, moves |-> 3, score |-> -700] /\ call.scores = sc)
    => ret[1] = <<r>>

\* C14: with resignation enabled the decision after a search is the resign
\* request, and no move, exactly when at least N evaluations are recorded and
\* the N most recent are all at or below T, and the move otherwise; for
\* T = -700 and N = 3 the history -750, -800, -720 resigns and the history
\* -750, -800, +100 submits the move.
C14_ResignWindow ==
  ret # <<>> =>
    /\ call.resign.enabled =>
         /\ ret[1] = <<"resign">>
              <=> WindowAtOrBelow(call.scores, call.resign.moves, call.resign.score)
         /\ ret[1] # <<"resign">> => ret[1][1] = "make_move"
    /\ ResignExample(<<-750, -800, -720>>, "resign")
    /\ ResignExample(<<-750, -800, 100>>, "make_move")

C14_Witness ==
  /\ ret = <<(<<"resign">>)>>
  /\ call.resign.moves = 3
  /\ call.scores = <<100, -750, -800, -700>>

(***************************************************************************)
(* Game.get_book_move on its own.  The board is the positions the game has *)
(* passed through; each book source either has no entry for the current    *)
(* position (IndexError) or selects a move, named by the position it leads *)
(* to.                                                                     *)
(***************************************************************************)
Positions == 1..NumPositions

NoEntry == 0

Histories == UNION {[1..n -> Positions] : n \in 0..MaxHistory}

BookLists == UNION {[1..n -> Positions \cup {NoEntry}] : n \in 0..NumBooks}

\* how many times position p is on the stack
Occurrences(history, p) == Cardinality({i \in DOMAIN history : history[i] = p})

\* mutant: no position counts as a repetition
is_repetition_never(history, count) == FALSE

\* chess.Board.is_repetition(count): the position on top of the stack has
\* occurred at least count times
is_repetition(history, count) ==
  history # <<>> /\ Occurrences(history, history[Len(history)]) >= count

RECURSIVE book_move_from(_, _, _)
\* the loop over the books from source k on: <<source, move>> of the first
\* move returned, <<0, NoEntry>> for None
book_move_from(books, history, k) ==
  IF k > Len(books) THEN <<0, NoEntry>>
  ELSE IF books[k] = NoEntry THEN book_move_from(books, history, k + 1)
  ELSE IF ~is_repetition(Append(history, books[k]), 2) THEN <<k, books[k]>>
  ELSE book_move_from(books, history, k + 1)

get_book_move(books, history) == book_move_from(books, history, 1)

BookInit ==
  /\ call \in [fn : {"get_book_move"}, books : BookLists, history : Histories]
  /\ ret = <<>>

\* game.py:263-270 within the book depth: the book move is posted, or the
\* engine is searched
BookOrSearch ==
  /\ call.fn = "get_book_move"
  /\ ret = <<>>
  /\ LET found == get_book_move(call.books, call.history)
     IN ret' = IF found[2] # NoEntry
               THEN <<[req |-> "make_move", source |-> found[1], move |-> found[2]]>>
               ELSE <<[req |-> "search", source |-> 0, move |-> NoEntry]>>
  /\ UNCHANGED <<call, mgrVars, gameVars>>

InitBook == MgrInit /\ NoGameFollowed /\ BookInit

SpecBook == InitBook /\ [][BookOrSearch]_vars

\* playing the move of source k would make its position occur a third time
ThirdOccurrence(books, history, k) == Occurrences(history, books[k]) + 1 >= 3

\* C15: a book move that would make its position occur a third time is not
\* played; the move played is that of the first source in order that was not
\* skipped, every source before it having no entry or a repeating move; and
\* when every source has no entry or a move of a third occurrence the engine
\* is searched.
C15_NoThirdOccurrenceFromBook ==
  ret # <<>> =>
    LET books == call.books
        history == call.history
        k == ret[1].source
    IN /\ ret[1].req = "make_move" =>
            /\ k \in DOMAIN books /\ books[k] = ret[1].move
            /\ ~ThirdOccurrence(books, history, k)
            /\ \A j \in 1..(k - 1) :
                 books[j] = NoEntry \/ Occurrences(history, books[j]) >= 1
       /\ (\A j \in DOMAIN books : books[j] = NoEntry \/ ThirdOccurrence(books, history, j))
            => ret[1].req = "search"

C15_Witness ==
  /\ ret # <<>>
  /\ ret[1].req = "make_move" /\ ret[1].source = 2
  /\ ThirdOccurrence(call.books, call.history, 1)

\* C16: a gameStart whose handler adds a new Game to the table, with the queue
\* not empty and the table still under the limit afterwards, has the accept
\* request for the head of the queue issued by that handler.
C16_AcceptAfterGameStart ==
  [][ ( /\ HandlerStep
        /\ event.type = "gameStart"
        /\ event.id \notin current_games
        /\ event.id \in current_games'
        /\ challenge_queue # <<>>
        /\ is_under_concurrency_limit(current_games') )
      => Accepted(requests') = {Head(challenge_queue)} ]_vars

\* C17: the handler of a ping leaves in the table exactly the games whose loop
\* task has not finished: every game whose task is done, with a result or an
\* exception, is dropped and every game whose task is running is kept, whether
\* or not a gameFinish for it ever arrived.
C17_PingCleansTable ==
  [][ (HandlerStep /\ event.type = "ping")
      => /\ \A g \in current_games :
              g \in current_games' <=> loop_task[g] = "running"
         /\ current_games' \subseteq current_games ]_vars

C17_Witness ==
  /\ reaped # {}
  /\ \E g \in current_games : loop_task[g] = "running"
  /\ \A g \in reaped : g \notin current_games

\* the step is a call of the Matchmaker: it is the only thing that moves
\* last_event_time while a ping is handled, and the only source of a
\* create_challenge request
MatchmakerCalled ==
  \/ HandlerStep /\ event.type = "ping" /\ last_event_time' # last_event_time
  \/ Issued(requests', "create_challenge") # {} /\ requests' # requests

\* C18: the Matchmaker is called only by the handler of a ping, with
\* matchmaking enabled, on an empty table, and at a clock reading at least the
\* idle timeout (max(1, timeout) minutes) after the last gameStart, gameFinish,
\* challenge, challengeCanceled or earlier call of the Matchmaker.
C18_MatchmakingTrigger ==
  [][ MatchmakerCalled
      => /\ HandlerStep /\ event.type = "ping"
         /\ CONFIG.matchmaking.enabled
         /\ current_games' = {}
         /\ last_event_time' - idle_since >= Max(1, CONFIG.matchmaking.timeout) * 60 ]_vars

C18_Witness ==
  /\ Issued(requests, "create_challenge") # {}
  /\ reaped # {}
  /\ serviced # <<>>

(***************************************************************************)
(* Matchmaker.challenge on its own, called by on_ping: every list of up to *)
(* MaxBots bots the server may answer with.                                *)
(***************************************************************************)
BotPool ==
  { Bot(username, 1800, 900), Bot("peer", 1850, 500), Bot("novice", 1800, 2),
    Bot("strong", 2600, 900) }

OnlineBotLists == UNION {[1..n -> BotPool] : n \in 0..MaxBots}

\* on_ping has reached `await self.matchmaker.challenge()'
MatchInit ==
  /\ MgrInit
  /\ call \in [fn : {"challenge"}, bots : OnlineBotLists]
  /\ ret = <<>>

\* the call returns to on_ping, mgr_pc = "stream", or raises, mgr_pc = "error"
CallMatchmaker ==
  /\ call.fn = "challenge"
  /\ ret = <<>>
  /\ MatchmakerChallenge(call.bots)
  /\ ret' = <<mgr_pc'>>
  /\ UNCHANGED <<current_games, loop_task, challenge_queue, last_event_time, event,
                 awaited, arrivals, serviced, canceled, reaped, idle_since,
                 pending>>
  /\ UNCHANGED <<call, gameVars>>

InitMatch == MatchInit /\ NoGameFollowed

SpecMatch == InitMatch /\ [][CallMatchmaker]_vars

\* this account is among the bots listed
SelfListed(bots) == \E i \in DOMAIN bots : bots[i].name = username

\* C19: Matchmaker.challenge called with a list this account is not in
\* returns to its caller, without raising, and has issued no challenge.
C19_SelfAbsentAbandons ==
  (ret # <<>> /\ ~SelfListed(call.bots))
    => (mgr_pc = "stream" /\ requests = <<>>)

(***************************************************************************)
(* Lichess.get and Lichess.post on their own: both are wrapped by          *)
(* backoff.on_predicate(backoff.expo, status_code >= 500, max_time=300).   *)
(* ret is the log of the requests one call has sent: the status answered,  *)
(* the seconds elapsed since the call began, read before the request, and  *)
(* what the wrapper did with the response.                                 *)
(***************************************************************************)
max_time == 300

StatusCodes == {200, 404, 429, 500, 503}

ElapsedReadings == {0, 150, 300, 450}

predicate_client_error(status_code) == status_code >= 400

\* lambda response: response.status_code >= 500
predicate(status_code) == status_code >= 500

Attempt(status_code, elapsed, outcome) ==
  [status_code |-> status_code, elapsed |-> elapsed, outcome |-> outcome]

RetryInit ==
  /\ call \in [fn : {"get", "post"}]
  /\ ret = <<>>

\* one turn of the wrapper's loop: read the elapsed time, send the request,
\* test the response, then sleep and go round again or return the response
on_predicate ==
  /\ Len(ret) < MaxTries
  /\ IF ret = <<>> THEN TRUE ELSE ret[Len(ret)].outcome = "retry"
  /\ \E status_code \in StatusCodes, elapsed \in ElapsedReadings :
       /\ IF ret = <<>> THEN elapsed = 0 ELSE elapsed >= ret[Len(ret)].elapsed
       /\ ret' = Append(ret, Attempt(status_code, elapsed,
                                     IF predicate(status_code) /\ elapsed < max_time
                                     THEN "retry" ELSE "return"))

(***************************************************************************)
(* Lichess.get                                                             *)
(***************************************************************************)
LichessGet ==
  /\ call.fn = "get"
  /\ on_predicate
  /\ UNCHANGED <<call, mgrVars, gameVars>>

(***************************************************************************)
(* Lichess.post                                                            *)
(***************************************************************************)
LichessPost ==
  /\ call.fn = "post"
  /\ on_predicate
  /\ UNCHANGED <<call, mgrVars, gameVars>>

InitRetry == MgrInit /\ NoGameFollowed /\ RetryInit

NextRetry == LichessGet \/ LichessPost

SpecRetry == InitRetry /\ [][NextRetry]_vars

\* C20: a GET or POST answered 5xx is sent again while the elapsed time is
\* under max_time; once it is not, the call returns that response and never
\* raises; a response under 500, every 4xx among them, is returned at once;
\* so every request but the last of a call was answered 5xx.
C20_RetryOnServerError ==
  \A i \in DOMAIN ret :
    /\ ret[i].outcome \in {"retry", "return"}
    /\ ret[i].status_code < 500 => ret[i].outcome = "return"
    /\ (ret[i].status_code >= 500 /\ ret[i].elapsed < max_time)
         => ret[i].outcome = "retry"
    /\ (ret[i].status_code >= 500 /\ ret[i].elapsed >= max_time)
         => ret[i].outcome = "return"
    /\ i < Len(ret) => (ret[i].outcome = "retry" /\ ret[i].status_code >= 500)

\* a call that was retried and then gave up on a 5xx response
C20_Witness ==
  /\ Len(ret) >= 2
  /\ ret[1].outcome = "retry"
  /\ ret[Len(ret)].outcome = "return"
  /\ ret[Len(ret)].status_code >= 500

\* C21: a GET or POST answered with the rate-limit status 429 is sent again
\* after a wait; the call never returns that response to its caller.
C21_RateLimitRetried ==
  \A i \in DOMAIN ret :
    ret[i].status_code = 429 => ret[i].outcome = "retry"

(***************************************************************************)
(* Further properties of one Game, under SpecGame.                         *)
(***************************************************************************)
\* C24: on pings with fewer than two ply played, the opponent to move and
\* the abort time elapsed, the Game sends abort requests a bounded number of
\* times, three in the words of the specification, and then sets its status
\* to ABORTED itself, whether or not the server has answered: a fourth
\* abort request is never sent and the status is aborted instead.
C24_AbortBounded ==
  [][ (abort_requests >= 3 /\ actor' = "loop" /\ loop_pc = "stream"
         /\ game_out' = <<"abort">>)
        => (abort_requests' = abort_requests /\ status' = "aborted") ]_vars

\* C26: a move task whose POST has raised does not end the loop of its Game
\* with an error.
C26_FailedPostKeepsLoop ==
  (\E i \in DOMAIN move_tasks : move_tasks[i] = "post_failed") => loop_pc # "error"

\* C29: the Game creates at most one move task for any one position: a
\* move task is never created for the board the latest one was created for.
C29_OneDecisionPerPosition ==
  [][ Len(move_tasks') > Len(move_tasks) => Len(board) # decided_ply ]_vars

(***************************************************************************)
(* Lichess.watch_event_stream and Lichess.watch_game_stream on their own.  *)
(* ret is the log of what the generator has done: opened a connection      *)
(* ("connect"), yielded an event ("yield"), caught an exception of the     *)
(* connection ("error"), returned after the lines ended ("return"); and,   *)
(* for the game stream after an error, asked for the ongoing games and     *)
(* gone round again ("reconnect"), returned ("abandon") or been left by    *)
(* the exception that request raised ("raise").                            *)
(***************************************************************************)
\* the answers to GET /api/account/playing: the status, and the games the
\* account is playing at the server, which a 200 response lists
PlayingAnswers == [status_code : {200, 429, 503}, playing : SUBSET GameIds]

NoAnswer == [status_code |-> 0, playing |-> {}]

StreamStep(op, answer) == [op |-> op, answer |-> answer]

\* Lichess.get_ongoing_games on the response `answer'
get_ongoing_games(answer) ==
  IF answer.status_code = 200 THEN answer.playing ELSE {}

\* `if game_id not in await self.get_ongoing_games(): return'
ongoing_check(game_id, answer) ==
  IF game_id \notin get_ongoing_games(answer) THEN "abandon" ELSE "reconnect"

\* the generator has ended, by a return or by an exception
StreamEnded(log) ==
  log # <<>> /\ log[Len(log)].op \in {"return", "abandon", "raise"}

\* the generator is at `async with self.client.stream(...)'
AtConnect(log) == log = <<>> \/ log[Len(log)].op \in {"error", "reconnect"}

\* the generator is inside `async for line in response.aiter_lines()'
AtLines(log) == log # <<>> /\ log[Len(log)].op \in {"connect", "yield"}

\* line 59, line 78: the lines have ended without an exception
lines_end == "return"

\* the body of `while True' up to its next await: the connection opens or
\* raises, a line is yielded, the read raises, or the lines end
stream_step(log) ==
  IF AtConnect(log) THEN {"connect", "error"}
  ELSE IF AtLines(log) THEN {"yield", "error", lines_end}
  ELSE {}

StreamInit ==
  /\ call \in [fn : {"watch_event_stream"}, game_id : {NoGame}]
            \cup [fn : {"watch_game_stream"}, game_id : GameIds]
  /\ ret = <<>>

(***************************************************************************)
(* Lichess.watch_event_stream                                              *)
(***************************************************************************)
WatchEventStream ==
  /\ call.fn = "watch_event_stream"
  /\ Len(ret) < MaxStreamSteps
  /\ \E op \in stream_step(ret) : ret' = Append(ret, StreamStep(op, NoAnswer))
  /\ UNCHANGED <<call, mgrVars, gameVars>>

(***************************************************************************)
(* Lichess.watch_game_stream                                               *)
(***************************************************************************)
WatchGameStream ==
  /\ call.fn = "watch_game_stream"
  /\ Len(ret) < MaxStreamSteps
  /\ IF ret # <<>> /\ ret[Len(ret)].op = "error"
     THEN \E answer \in PlayingAnswers :
            \/ ret' = Append(ret, StreamStep(ongoing_check(call.game_id, answer), answer))
            \/ ret' = Append(ret, StreamStep("raise", answer))
     ELSE \E op \in stream_step(ret) : ret' = Append(ret, StreamStep(op, NoAnswer))
  /\ UNCHANGED <<call, mgrVars, gameVars>>

InitStream == MgrInit /\ NoGameFollowed /\ StreamInit

NextStream == WatchEventStream \/ WatchGameStream

SpecStream == InitStream /\ [][NextStream]_vars

\* C22: the account-level event stream never ends for its consumer: after
\* an error or a close of the connection the generator connects again.
C22_EventStreamNeverEnds ==
  call.fn = "watch_event_stream" => ~StreamEnded(ret)

\* C23: the per-game stream ends only when the server has closed the
\* connection without an error, or when after an error of the connection the
\* game is no longer among the ongoing games of the account; after an error
\* with the game still ongoing the generator connects again.
C23_GameStreamEnds ==
  (call.fn = "watch_game_stream" /\ ret # <<>>)
    => LET last == ret[Len(ret)]
       IN /\ last.op # "raise"
          /\ last.op = "abandon" => call.game_id \notin last.answer.playing
          /\ \A i \in 1..(Len(ret) - 1) :
               (ret[i].op = "error" /\ call.game_id \in ret[i + 1].answer.playing)
                 => ret[i + 1].op = "reconnect"

(***************************************************************************)
(* The GameManager with the history of the ids it has accepted.            *)
(***************************************************************************)
InitAdmission == TableInit /\ pending = <<{}>> /\ NoGameFollowed /\ NoCallFollowed

SpecAdmission == InitAdmission /\ [][MgrNext]_vars

\* C30: the games in the table together with the challenges accepted whose
\* gameStart has not been handled yet are never more than
\* CONFIG["concurrency"].
C30_AdmissionCountsAccepted ==
  pending # <<>>
    => Cardinality(current_games) + Cardinality(pending[1]) <= CONFIG.concurrency

C27_CleanupIdempotent ==
  [][ /\ (HandlerStep /\ event.type = "gameFinish" /\ event.id \notin current_games)
         => /\ current_games' = current_games
            /\ loop_task' = loop_task
            /\ mgr_pc' = "stream"
      /\ (HandlerStep /\ event.type = "gameFinish") => event.id \notin current_games'
      /\ (HandlerStep /\ event.type = "ping")
         => \A g \in GameIds \ current_games :
              g \notin current_games' /\ loop_task'[g] = loop_task[g] ]_vars

\* on_game_finish has removed a game whose loop task had already ended
C27_Witness ==
  /\ mgr_pc = "await_loop_task"
  /\ awaited \notin current_games
  /\ TaskDone(loop_task[awaited])
  /\ current_games # {}

(***************************************************************************)
(* The search limit of Game.get_engine_move on its own, for every clock,   *)
(* colour, ply count and move overhead of a bounded set, with this side to *)
(* move as it is when make_move runs.  Times are in milliseconds, the unit *)
(* of the events and of CONFIG["move_overhead"]; the code holds them in    *)
(* seconds, each divided by 1000.                                          *)
(***************************************************************************)
ClockTimes == {0, 50, 60000}

Increments == {0, 1000}

MoveOverheads == {0, 100}

LimitClocks ==
  [white_clock : ClockTimes, black_clock : ClockTimes,
   white_inc : Increments, black_inc : Increments]

\* the side to move after `ply' half-moves from the initial position
turn_at(ply) == IF ply % 2 = 0 THEN "white" ELSE "black"

\* mutant: the overhead subtracted without the floor at zero
engine_limit_nofloor(clk, col, ply, move_overhead) ==
  LET clock_name == IF col = "white" THEN "white_clock" ELSE "black_clock"
      reduced == [clk EXCEPT ![clock_name] = clk[clock_name] - move_overhead]
  IN IF ply >= 2 THEN reduced ELSE [time |-> 10 * 1000]

\* lines 218-229: chess.engine.Limit(**clock), or Limit(time=10)
engine_limit(clk, col, ply, move_overhead) ==
  LET clock_name == IF col = "white" THEN "white_clock" ELSE "black_clock"
      reduced == [clk EXCEPT ![clock_name] = Max(0, clk[clock_name] - move_overhead)]
  IN IF ply >= 2 THEN reduced ELSE [time |-> 10 * 1000]

LimitInit ==
  /\ call \in { c \in [fn : {"get_engine_move"}, clock : LimitClocks,
                      color : {"white", "black"}, ply : 0..(MaxPly + 1),
                      move_overhead : MoveOverheads] :
                 c.color = turn_at(c.ply) }
  /\ ret = <<>>

GetEngineLimit ==
  /\ call.fn = "get_engine_move"
  /\ ret = <<>>
  /\ ret' = <<engine_limit(call.clock, call.color, call.ply, call.move_overhead)>>
  /\ UNCHANGED <<call, mgrVars, gameVars>>

InitLimit == MgrInit /\ NoGameFollowed /\ LimitInit

SpecLimit == InitLimit /\ [][GetEngineLimit]_vars

ReceivePing == Receive /\ event'.type = "ping"

\* watch_event_stream dispatches the event in hand and the handler runs
Handlers ==
  \/ OnPing
  \/ OnGameStart
  \/ OnGameFinish
  \/ AwaitLoopTask
  \/ OnChallenge
  \/ OnChallengeCanceled
  \/ OnChallengeDeclined

\* the loop task on_game_finish is awaiting ends
AwaitedTaskEnds ==
  /\ mgr_pc = "await_loop_task"
  /\ LoopTaskEnds
  /\ TaskDone(loop_task'[awaited])

SpecLive ==
  /\ Init
  /\ [][Next]_vars
  /\ WF_vars(Handlers)
  /\ WF_vars(AwaitedTaskEnds)
  /\ SF_vars(ReceivePing)

\* the number of tracked games is below the limit again and again
CapacityRecurs == []<>is_under_concurrency_limit(current_games)

\* C31: every challenge id placed in the queue is eventually accepted from
\* it or removed from it by a cancellation (the queue loses an id in no
\* other way), provided keepalive pings keep arriving and the number of
\* tracked games drops below the concurrency limit again and again: no id
\* stays in the queue forever.
C31_QueuedEventuallyLeaves ==
  CapacityRecurs =>
    \A c \in ChallengeIds :
      (c \in Range(challenge_queue)) ~> (c \notin Range(challenge_queue))

\* the same for the runs in which the manager goes on reading its stream,
\* which holds: what strands a queued id is the end of watch_event_stream
QueueDrainsWhileManagerRuns ==
  (CapacityRecurs /\ []<>(mgr_pc = "stream")) =>
    \A c \in ChallengeIds :
      (c \in Range(challenge_queue)) ~> (c \notin Range(challenge_queue))
=============================================================================
